---------------------------- MODULE Spec2Model ----------------------------
(***************************************************************************)
(* Model of python/tts_service.py: the ChatTTSService object (load_model,  *)
(* synthesize, _numpy_to_wav, get_info) and the command line entry point   *)
(* main().                                                                 *)
(*                                                                         *)
(* Floating point samples are modelled as exact fractions k / GridDen; a   *)
(* waveform is a sequence of the numerators k.  Byte strings are sequences *)
(* of integers 0..255.  Exceptions are values [kind |-> "raise", ...].     *)
(***************************************************************************)
EXTENDS Integers, Sequences, FiniteSets, TLC

VARIABLES
    device,         \* self.device
    model,          \* self.model
    sample_rate,    \* self.sample_rate
    _model_loaded,  \* self._model_loaded
    cuda,           \* environment: torch is importable and reports CUDA
    pc,             \* position of the running process
    req,            \* the call in progress / last call, with its bookkeeping
    ret,            \* what the last call returned or raised
    wav,            \* value returned by self.model.infer (wav[0])
    audio_int16,    \* local of _numpy_to_wav: the quantized samples
    cause,          \* text of the last exception caught (str(e))
    loads,          \* number of ChatTTS.load invocations so far
    infers,         \* number of model.infer invocations so far
    calls,          \* number of public calls made by the client so far
    args,           \* parsed command line (main)
    stdout,         \* bytes written to sys.stdout
    stderr,         \* JSON objects printed to sys.stderr, in order
    exitcode        \* process exit status of main (-1 while running)

vars == <<device, model, sample_rate, _model_loaded, cuda, pc, req, ret, wav,
          audio_int16, cause, loads, infers, calls, args, stdout, stderr,
          exitcode>>

---------------------------------------------------------------------------
(* Bounds of the model *)

\* samples are k / GridDen
GridDen == 4
\* sample numerators range over -MaxAmp .. MaxAmp (amplitude up to MaxAmp/GridDen)
MaxAmp == 6
\* longest waveform fed to _numpy_to_wav in the conversion specification
MaxSamples == 2
\* longest waveform the backend returns in the service and CLI specifications
MaxInferSamples == 1
\* number of public calls a client makes on one service instance
MaxCalls == 3

---------------------------------------------------------------------------
(* Program constants *)

\* self.sample_rate = 24000  # ChatTTS standard
ChatTTSRate == 24000
\* np.int16(audio * 32767)
Scale == 32767
\* wav_file.setnchannels(1)
NChannels == 1
\* wav_file.setsampwidth(2)
SampWidth == 2

NoneVal == "None"

---------------------------------------------------------------------------
(* _numpy_to_wav *)

Min(a, b) == IF a <= b THEN a ELSE b
Max(a, b) == IF a >= b THEN a ELSE b

\* np.clip(audio, -1.0, 1.0) on one sample k / GridDen
Clip(k) == Max(-GridDen, Min(GridDen, k))

\* C conversion of the real number a / d to an integer: truncation toward zero
TruncDiv(a, d) == IF a >= 0 THEN a \div d ELSE -((-a) \div d)

\* storage of an integer in 16 bits, two's complement
Wrap16(v) == ((v + 32768) % 65536) - 32768

\* np.int16(x) of the float x = a / GridDen
Int16(a) == Wrap16(TruncDiv(a, GridDen))

\* a mutated quantizer: no clip, and a wide integer type instead of int16
QuantizeWide(audio) == [i \in DOMAIN audio |-> TruncDiv(audio[i] * Scale, GridDen)]

\* audio = np.clip(audio, -1.0, 1.0); audio_int16 = np.int16(audio * 32767)
Quantize(audio) == [i \in DOMAIN audio |-> Int16(Clip(audio[i]) * Scale)]

\* little-endian encodings (struct '<H', '<L', and int16.tobytes())
LE16(u) == <<u % 256, (u \div 256) % 256>>
LE32(u) == <<u % 256, (u \div 256) % 256, (u \div 65536) % 256, (u \div 16777216) % 256>>
SampleBytes(v) == LE16(v % 65536)

RECURSIVE FrameBytes(_)
FrameBytes(samples) ==
    IF samples = <<>> THEN <<>>
    ELSE SampleBytes(Head(samples)) \o FrameBytes(Tail(samples))

\* the header the wave module writes on close: RIFF/WAVE/fmt /data
WavHeader(rate, datalen) ==
    <<82, 73, 70, 70>> \o LE32(36 + datalen) \o <<87, 65, 86, 69>> \o
    <<102, 109, 116, 32>> \o LE32(16) \o LE16(1) \o LE16(NChannels) \o
    LE32(rate) \o LE32(NChannels * rate * SampWidth) \o
    LE16(NChannels * SampWidth) \o LE16(SampWidth * 8) \o
    <<100, 97, 116, 97>> \o LE32(datalen)

\* wave.open(...); writeframes(audio_int16.tobytes()); wav_buffer.getvalue()
WavFile(samples, rate) ==
    LET frames == FrameBytes(samples)
    IN  WavHeader(rate, Len(frames)) \o frames

Return(v) == [kind |-> "return", val |-> v, msg |-> ""]
Raise(m) == [kind |-> "raise", val |-> NoneVal, msg |-> m]
NoRet == [kind |-> "none", val |-> NoneVal, msg |-> ""]

\* an ndarray of samples, or some other object
NdArray(s) == [isarray |-> TRUE, data |-> s]
NotArray == [isarray |-> FALSE, data |-> <<>>]
NoWav == [isarray |-> FALSE, data |-> <<>>]

\* _numpy_to_wav(audio, sample_rate): the bytes, or ValueError
NumpyToWav(audio, rate) ==
    IF ~audio.isarray THEN Raise("Audio must be numpy array")
    ELSE Return(WavFile(Quantize(audio.data), rate))

\* the value of the local audio_int16 when _numpy_to_wav got that far
QuantizedOf(audio) == IF audio.isarray THEN Quantize(audio.data) ELSE <<>>

Samples == (-MaxAmp) .. MaxAmp

SeqUpTo(S, n) == UNION {[1..m -> S] : m \in 0..n}

WavInputs == {NdArray(s) : s \in SeqUpTo(Samples, MaxSamples)} \cup {NotArray}

---------------------------------------------------------------------------
(* State after construction, and the parts a specification does not use *)

\* _get_device: "cuda" if torch imports and CUDA is available, else "cpu"
GetDevice(c) == IF c THEN "cuda" ELSE "cpu"

DeviceArgs == {NoneVal, "cpu", "cuda"}

\* ChatTTSService.__init__(device)
Construct(d) ==
    /\ cuda \in BOOLEAN
    /\ device = (IF d = NoneVal THEN GetDevice(cuda) ELSE d)
    /\ model = NoneVal
    /\ sample_rate = ChatTTSRate
    /\ _model_loaded = FALSE

NoReq == [op |-> "none", text |-> "", lang |-> "en", caller |-> "client",
          loadedAtEntry |-> FALSE, loads |-> 0, infers |-> 0]
NoArgs == [text |-> NoneVal, lang |-> "en", device |-> NoneVal, info |-> FALSE]

Quiet ==
    /\ req = NoReq /\ ret = NoRet /\ audio_int16 = <<>>
    /\ cause = "" /\ loads = 0 /\ infers = 0 /\ calls = 0
    /\ stdout = <<>> /\ stderr = <<>> /\ exitcode = -1

---------------------------------------------------------------------------
(* Conversion alone: _numpy_to_wav applied to every waveform of the grid *)

InitWav ==
    /\ Construct("cpu") /\ Quiet /\ args = NoArgs
    /\ pc = "wav_in"
    /\ wav \in WavInputs

ConvertWav ==
    /\ pc = "wav_in"
    /\ ret' = NumpyToWav(wav, sample_rate)
    /\ audio_int16' = QuantizedOf(wav)
    /\ pc' = "wav_done"
    /\ UNCHANGED <<device, model, sample_rate, _model_loaded, cuda, req, wav,
                   cause, loads, infers, calls, args, stdout, stderr, exitcode>>

NextWav == ConvertWav

SpecWav == InitWav /\ [][NextWav]_vars

---------------------------------------------------------------------------
(* load_model *)

\* what ChatTTS.load (or the imports before it) can do: succeed, or raise
\* an exception with one of these texts
LoadFailures == {"No module named 'ChatTTS'", "CUDA out of memory"}
LoadOutcomes == {"ok"} \cup LoadFailures

\* _print_error(message): json.dumps({"error": message}) on stderr
ErrorJson(m) == [error |-> m]

\* load_model without the early return of line 61: initializes on every call
LoadModelNoCache(o) ==
    /\ loads' = loads + 1
    /\ IF o = "ok"
       THEN /\ model' = "ChatTTS"
            /\ _model_loaded' = TRUE
            /\ ret' = Return(TRUE)
            /\ UNCHANGED <<cause, stderr>>
       ELSE /\ cause' = o
            /\ stderr' = Append(stderr,
                   ErrorJson("Failed to load ChatTTS model: " \o o))
            /\ ret' = Return(FALSE)
            /\ UNCHANGED <<model, _model_loaded>>

\* load_model whose except clause reports the error and raises it again
LoadModelRaises(o) ==
    IF _model_loaded
    THEN /\ ret' = Return(TRUE)
         /\ UNCHANGED <<model, _model_loaded, loads, cause, stderr>>
    ELSE /\ loads' = loads + 1
         /\ IF o = "ok"
            THEN /\ model' = "ChatTTS"
                 /\ _model_loaded' = TRUE
                 /\ ret' = Return(TRUE)
                 /\ UNCHANGED <<cause, stderr>>
            ELSE /\ cause' = o
                 /\ stderr' = Append(stderr,
                        ErrorJson("Failed to load ChatTTS model: " \o o))
                 /\ ret' = Raise(o)
                 /\ UNCHANGED <<model, _model_loaded>>

\* load_model(), the backend answering o; ret receives the returned value
LoadModel(o) ==
    IF _model_loaded
    THEN /\ ret' = Return(TRUE)
         /\ UNCHANGED <<model, _model_loaded, loads, cause, stderr>>
    ELSE /\ loads' = loads + 1
         /\ IF o = "ok"
            THEN /\ model' = "ChatTTS"
                 /\ _model_loaded' = TRUE
                 /\ ret' = Return(TRUE)
                 /\ UNCHANGED <<cause, stderr>>
            ELSE /\ cause' = o
                 /\ stderr' = Append(stderr,
                        ErrorJson("Failed to load ChatTTS model: " \o o))
                 /\ ret' = Return(FALSE)
                 /\ UNCHANGED <<model, _model_loaded>>

---------------------------------------------------------------------------
(* get_info *)

\* the dict get_info returns; _cuda_available() reads the environment
InfoDict ==
    [device |-> device, cuda_available |-> cuda,
     sample_rate |-> sample_rate, model_loaded |-> _model_loaded]

\* get_info that loads the model on first use before reporting
GetInfoLazyLoad ==
    /\ model' = "ChatTTS"
    /\ _model_loaded' = TRUE
    /\ loads' = IF _model_loaded THEN loads ELSE loads + 1
    /\ ret' = Return([InfoDict EXCEPT !.model_loaded = TRUE])
    /\ UNCHANGED <<device, sample_rate, cause, stderr>>

\* get_info()
GetInfo ==
    /\ ret' = Return(InfoDict)
    /\ UNCHANGED <<device, model, sample_rate, _model_loaded, loads, cause,
                   stderr>>

---------------------------------------------------------------------------
(* synthesize, in the order of its statements *)

Texts == {"", "Hello"}
Langs == {"en", "zh", "fr"}

\* what model.infer can do: raise, or return an array or another object
InferFailures == {"infer failed"}
InferResults ==
    {NdArray(s) : s \in SeqUpTo({-MaxAmp, 1, MaxAmp}, MaxInferSamples)}
        \cup {NotArray}

NewReq(op, text, lang, caller) ==
    [op |-> op, text |-> text, lang |-> lang, caller |-> caller,
     loadedAtEntry |-> _model_loaded, loads |-> loads, infers |-> infers]

\* where control goes when the call in progress returns or raises
ReturnPc == IF req.caller = "main" THEN "main_ret" ELSE "idle"

\* entry of synthesize(text, lang): if not self._model_loaded: ...
SynEntry(text, lang, caller) ==
    /\ req' = NewReq("synthesize", text, lang, caller)
    /\ pc' = IF _model_loaded THEN "syn_infer" ELSE "syn_load"

\* self.load_model() called from synthesize
SynLoad ==
    /\ pc = "syn_load"
    /\ \E o \in LoadOutcomes : LoadModel(o)
    /\ pc' = "syn_loaded"
    /\ UNCHANGED <<device, sample_rate, cuda, req, wav, audio_int16, infers,
                   calls, args, stdout, exitcode>>

\* synthesize that ignores what load_model returned
SynLoadUnchecked ==
    /\ pc = "syn_loaded"
    /\ pc' = "syn_infer"
    /\ ret' = NoRet
    /\ UNCHANGED <<device, model, sample_rate, _model_loaded, cuda, req, wav,
                   audio_int16, cause, loads, infers, calls, args, stdout,
                   stderr, exitcode>>

\* if not self.load_model(): raise Exception("Model loading failed")
SynLoadCheck ==
    /\ pc = "syn_loaded"
    /\ IF ret.val = TRUE
       THEN /\ pc' = "syn_infer"
            /\ ret' = NoRet
       ELSE /\ pc' = ReturnPc
            /\ ret' = Raise("Model loading failed")
    /\ UNCHANGED <<device, model, sample_rate, _model_loaded, cuda, req, wav,
                   audio_int16, cause, loads, infers, calls, args, stdout,
                   stderr, exitcode>>

\* synthesize whose except clause drops the model when infer raises
SynInferDropsModel ==
    /\ pc = "syn_infer"
    /\ IF model = NoneVal
       THEN /\ cause' = "'NoneType' object has no attribute 'infer'"
            /\ ret' = Raise("TTS synthesis failed: " \o cause')
            /\ pc' = ReturnPc
            /\ UNCHANGED <<wav, infers, model, _model_loaded>>
       ELSE /\ infers' = infers + 1
            /\ \/ \E e \in InferFailures :
                    /\ cause' = e
                    /\ ret' = Raise("TTS synthesis failed: " \o e)
                    /\ model' = NoneVal
                    /\ _model_loaded' = FALSE
                    /\ pc' = ReturnPc
                    /\ UNCHANGED wav
               \/ \E w \in InferResults :
                    /\ wav' = w
                    /\ pc' = "syn_conv"
                    /\ UNCHANGED <<cause, ret, model, _model_loaded>>
    /\ UNCHANGED <<device, sample_rate, cuda, req, audio_int16, loads, calls,
                   args, stdout, stderr, exitcode>>

\* wav = self.model.infer(text, lang=lang, use_decoder=True), and the
\* except clause around it
SynInfer ==
    /\ pc = "syn_infer"
    /\ IF model = NoneVal
       THEN /\ cause' = "'NoneType' object has no attribute 'infer'"
            /\ ret' = Raise("TTS synthesis failed: " \o cause')
            /\ pc' = ReturnPc
            /\ UNCHANGED <<wav, infers>>
       ELSE /\ infers' = infers + 1
            /\ \/ \E e \in InferFailures :
                    /\ cause' = e
                    /\ ret' = Raise("TTS synthesis failed: " \o e)
                    /\ pc' = ReturnPc
                    /\ UNCHANGED wav
               \/ \E w \in InferResults :
                    /\ wav' = w
                    /\ pc' = "syn_conv"
                    /\ UNCHANGED <<cause, ret>>
    /\ UNCHANGED <<device, model, sample_rate, _model_loaded, cuda, req,
                   audio_int16, loads, calls, args, stdout, stderr, exitcode>>

\* audio_bytes = self._numpy_to_wav(wav[0], self.sample_rate);
\* return self.sample_rate, audio_bytes -- and the except clause around it
SynConvert ==
    /\ pc = "syn_conv"
    /\ LET r == NumpyToWav(wav, sample_rate)
       IN  /\ audio_int16' = QuantizedOf(wav)
           /\ IF r.kind = "raise"
              THEN /\ cause' = r.msg
                   /\ ret' = Raise("TTS synthesis failed: " \o r.msg)
              ELSE /\ ret' = Return([sample_rate |-> sample_rate,
                                     audio_bytes |-> r.val])
                   /\ UNCHANGED cause
    /\ pc' = ReturnPc
    /\ UNCHANGED <<device, model, sample_rate, _model_loaded, cuda, req, wav,
                   loads, infers, calls, args, stdout, stderr, exitcode>>

---------------------------------------------------------------------------
(* One service instance and a client making up to MaxCalls calls on it *)

Init ==
    /\ \E d \in DeviceArgs : Construct(d)
    /\ Quiet /\ args = NoArgs /\ wav = NoWav
    /\ pc = "idle"

CallLoadModel ==
    /\ pc = "idle" /\ calls < MaxCalls
    /\ calls' = calls + 1
    /\ req' = NewReq("load_model", "", "en", "client")
    /\ \E o \in LoadOutcomes : LoadModel(o)
    /\ pc' = "idle"
    /\ UNCHANGED <<device, sample_rate, cuda, wav, audio_int16, infers, args,
                   stdout, exitcode>>

CallGetInfo ==
    /\ pc = "idle" /\ calls < MaxCalls
    /\ calls' = calls + 1
    /\ req' = NewReq("get_info", "", "en", "client")
    /\ GetInfo
    /\ pc' = "idle"
    /\ UNCHANGED <<cuda, wav, audio_int16, infers, args, stdout, exitcode>>

CallSynthesize ==
    /\ pc = "idle" /\ calls < MaxCalls
    /\ calls' = calls + 1
    /\ \E t \in Texts, l \in Langs : SynEntry(t, l, "client")
    /\ ret' = NoRet
    /\ UNCHANGED <<device, model, sample_rate, _model_loaded, cuda, wav,
                   audio_int16, cause, loads, infers, args, stdout, stderr,
                   exitcode>>

Next ==
    \/ CallLoadModel
    \/ CallGetInfo
    \/ CallSynthesize
    \/ SynLoad
    \/ SynLoadCheck
    \/ SynInfer
    \/ SynConvert

Spec == Init /\ [][Next]_vars

---------------------------------------------------------------------------
(* main(): one run of the command line *)

\* args.text is None without --text; args.device is None without --device
ArgSets ==
    [text : Texts \cup {NoneVal}, lang : Langs, device : DeviceArgs,
     info : BOOLEAN]

\* parser.print_help() writes the usage text to sys.stdout; its first bytes
HelpText == <<117, 115, 97, 103, 101, 58>>

\* metadata of a successful run; duration = (len / 2) / sample_rate is kept
\* as the exact fraction num / den
Metadata(rate, bytes) ==
    [sample_rate |-> rate, size |-> Len(bytes),
     duration |-> [num |-> Len(bytes), den |-> 2 * rate]]

InitMain ==
    /\ args \in ArgSets
    /\ Construct(args.device)
    /\ Quiet /\ wav = NoWav
    /\ pc = "main"

\* if args.info: print get_info() as JSON on stderr and return
MainInfo ==
    /\ pc = "main" /\ args.info
    /\ req' = NewReq("get_info", "", "en", "main")
    /\ ret' = Return(InfoDict)
    /\ stderr' = Append(stderr, InfoDict)
    /\ exitcode' = 0
    /\ pc' = "exited"
    /\ UNCHANGED <<device, model, sample_rate, _model_loaded, cuda, wav,
                   audio_int16, cause, loads, infers, calls, args, stdout>>

\* if not args.text: parser.print_help(); sys.exit(1)
MainNoText ==
    /\ pc = "main" /\ ~args.info
    /\ args.text \in {NoneVal, ""}
    /\ stdout' = stdout \o HelpText
    /\ exitcode' = 1
    /\ pc' = "exited"
    /\ UNCHANGED <<device, model, sample_rate, _model_loaded, cuda, req, ret,
                   wav, audio_int16, cause, loads, infers, calls, args,
                   stderr>>

\* service.synthesize(args.text, lang=args.lang)
MainSynthesize ==
    /\ pc = "main" /\ ~args.info
    /\ args.text \notin {NoneVal, ""}
    /\ SynEntry(args.text, args.lang, "main")
    /\ UNCHANGED <<device, model, sample_rate, _model_loaded, cuda, ret, wav,
                   audio_int16, cause, loads, infers, calls, args, stdout,
                   stderr, exitcode>>

\* after synthesize: write the audio and the metadata, or, in the except
\* clause, print the error and sys.exit(1)
MainFinish ==
    /\ pc = "main_ret"
    /\ IF ret.kind = "return"
       THEN /\ stdout' = stdout \o ret.val.audio_bytes
            /\ stderr' = Append(stderr,
                   Metadata(ret.val.sample_rate, ret.val.audio_bytes))
            /\ exitcode' = 0
       ELSE /\ stderr' = Append(stderr, ErrorJson(ret.msg))
            /\ exitcode' = 1
            /\ UNCHANGED stdout
    /\ pc' = "exited"
    /\ UNCHANGED <<device, model, sample_rate, _model_loaded, cuda, req, ret,
                   wav, audio_int16, cause, loads, infers, calls, args>>

NextMain ==
    \/ MainInfo
    \/ MainNoText
    \/ MainSynthesize
    \/ SynLoad
    \/ SynLoadCheck
    \/ SynInfer
    \/ SynConvert
    \/ MainFinish

SpecMain == InitMain /\ [][NextMain]_vars

---------------------------------------------------------------------------
(* Properties of the service (checked under Spec) *)

\* a public call of op returns in this step (load_model and get_info run in
\* one step)
Calls(op) == calls' # calls /\ req'.op = op

\* synthesize has returned to the client
SynReturned == pc = "idle" /\ req.op = "synthesize"

\* C1: once the model is loaded it stays loaded, ChatTTS.load is never
\* invoked again by any call, and every later load_model call returns True.
C1_LoadIdempotentSticky ==
    [][_model_loaded =>
          /\ _model_loaded'
          /\ loads' = loads
          /\ (Calls("load_model") => ret'.kind = "return" /\ ret'.val = TRUE)
      ]_vars

\* a load_model call made on an already loaded service has returned True
\* without a backend load
C1_Witness ==
    /\ pc = "idle" /\ req.op = "load_model" /\ req.loadedAtEntry
    /\ ret.kind = "return" /\ ret.val = TRUE
    /\ loads = req.loads /\ loads = 1 /\ _model_loaded

\* C2: a backend load that fails makes load_model return False (no
\* exception), appends {"error": "Failed to load ChatTTS model: <cause>"} to
\* stderr and leaves the service unloaded; and every load_model call on an
\* unloaded service invokes the backend load again, whatever failed before.
C2_FailedLoadRetryable ==
    [][/\ (loads' # loads /\ ~_model_loaded') =>
             /\ ret'.kind = "return" /\ ret'.val = FALSE
             /\ ~_model_loaded /\ model' = NoneVal
             /\ stderr' = Append(stderr,
                    ErrorJson("Failed to load ChatTTS model: " \o cause'))
       /\ (Calls("load_model") /\ ~_model_loaded) => loads' = loads + 1
      ]_vars

\* a load_model call has succeeded after an earlier load failure
C2_Witness ==
    /\ pc = "idle" /\ req.op = "load_model" /\ ~req.loadedAtEntry
    /\ ret.kind = "return" /\ ret.val = TRUE /\ _model_loaded
    /\ Len(stderr) >= 1 /\ loads >= 2

\* C3: a synthesize request with empty text never reaches model.infer.
C3_EmptyTextNoInfer ==
    (req.op = "synthesize" /\ req.text = "") => infers = req.infers

\* C5: a get_info call leaves _model_loaded, model, device, sample_rate and
\* the number of backend loads unchanged and reports the current load
\* state; before any load it reports model_loaded = False.
C5_GetInfoPureRead ==
    [][Calls("get_info") =>
          /\ UNCHANGED <<_model_loaded, model, device, sample_rate, loads>>
          /\ ret'.kind = "return"
          /\ ret'.val.model_loaded = _model_loaded
          /\ ret'.val.device = device
          /\ ret'.val.sample_rate = sample_rate
          /\ (loads = 0 => ret'.val.model_loaded = FALSE)
      ]_vars

\* get_info has been called before any load and reported model_loaded False
C5_Witness ==
    /\ pc = "idle" /\ req.op = "get_info" /\ loads = 0
    /\ ret.kind = "return" /\ ret.val.model_loaded = FALSE
    /\ ~_model_loaded

\* C6: model.infer is only ever invoked on a loaded service; a synthesize
\* that entered unloaded has invoked the backend load before any infer; and
\* when that load failed the request raised "Model loading failed" with no
\* infer.
C6_LoadBeforeInfer ==
    /\ (pc = "syn_infer" => _model_loaded /\ model # NoneVal)
    /\ (req.op = "synthesize" /\ infers > req.infers) =>
           /\ _model_loaded
           /\ (~req.loadedAtEntry => loads = req.loads + 1)
    /\ (SynReturned /\ ~req.loadedAtEntry /\ ~_model_loaded) =>
           /\ ret.kind = "raise" /\ ret.msg = "Model loading failed"
           /\ infers = req.infers
           /\ loads = req.loads + 1

\* synthesize on an unloaded service has failed because the load failed
C6_Witness ==
    /\ SynReturned /\ ~req.loadedAtEntry /\ ~_model_loaded
    /\ ret.kind = "raise" /\ ret.msg = "Model loading failed"
    /\ loads = req.loads + 1 /\ infers = req.infers

\* a synthesize request failed after it had invoked model.infer
SynFailed == SynReturned /\ infers > req.infers /\ ret.kind = "raise"

\* C7: when infer or the conversion raises, synthesize raises
\* "TTS synthesis failed: <cause>", and the service stays loaded: the next
\* step (a retry included) finds it loaded and performs no backend load.
C7_SynthesisFailureKeepsLoaded ==
    /\ [](SynFailed =>
             /\ ret.msg = "TTS synthesis failed: " \o cause
             /\ ret.val = NoneVal
             /\ _model_loaded /\ model # NoneVal)
    /\ [][SynFailed =>
             /\ _model_loaded' /\ loads' = loads
             /\ (Calls("synthesize") => pc' = "syn_infer")
         ]_vars

\* synthesize on a loaded service has failed in infer
C7_Witness ==
    /\ SynFailed /\ req.loadedAtEntry /\ _model_loaded
    /\ infers = req.infers + 1 /\ loads = req.loads
    /\ ret.msg = "TTS synthesis failed: infer failed"

---------------------------------------------------------------------------
(* Properties of the command line (checked under SpecMain) *)

\* a run in synthesize mode that failed
MainFailed ==
    /\ pc = "exited" /\ ~args.info
    /\ (args.text \in {NoneVal, ""} \/ ret.kind = "raise")

\* C4: a failed run in synthesize mode leaves stdout empty, has written
\* exactly one JSON object {"error": ...} to stderr, and exits non-zero.
C4_FailureIsErrorOnly ==
    MainFailed =>
        /\ exitcode # 0
        /\ stdout = <<>>
        /\ Len(stderr) = 1
        /\ DOMAIN stderr[1] = {"error"}

\* C8: after a successful run the metadata's size is the number of bytes
\* on stdout and duration * sample_rate is the number of 16-bit samples.
C8_ExactMetadata ==
    (pc = "exited" /\ ~args.info /\ exitcode = 0) =>
        LET meta == stderr[Len(stderr)]
        IN  /\ meta.size = Len(stdout)
            /\ meta.duration.num * meta.sample_rate
                   = Len(audio_int16) * meta.duration.den

---------------------------------------------------------------------------
(* Properties of _numpy_to_wav (checked under SpecWav) *)

\* the real number a / d rounded to the nearest integer, halves away from 0
RoundNearest(a, d) ==
    IF a >= 0 THEN (2 * a + d) \div (2 * d) ELSE -((2 * (-a) + d) \div (2 * d))

Converted == pc = "wav_done" /\ wav.isarray

C10_RoundsToNearest ==
    Converted =>
        \A i \in DOMAIN audio_int16 :
            audio_int16[i] = RoundNearest(Clip(wav.data[i]) * Scale, GridDen)

=============================================================================
